---- MODULE Spec2Model ----
(***************************************************************************)
(* A model of api_benchmark.py: OpenAIBenchmark.__init__ (configuration    *)
(* check and client registry), _test_single_model (one timed probe),       *)
(* run_benchmark (task fan-out on a ThreadPoolExecutor, collection with    *)
(* as_completed, log) and the __main__ block.                              *)
(*                                                                         *)
(* Strings are TLA+ strings; a duration is a whole number of seconds; a    *)
(* speed before rounding is the exact quotient <<tokens, duration>>, and a *)
(* rounded speed is a whole number of hundredths (100 stands for 1.0).     *)
(***************************************************************************)
EXTENDS Integers, Sequences, FiniteSets, TLC

\* ------------------------------------------------------------------ bounds

MaxProviders == 4
MaxModels == 2
MaxTasks == 2
MaxWorkers == 2
\* The longest duration of a call in a run of a single task, in seconds.
MaxProbeDur == 8
\* The most providers of a configuration that lacks a key.
MaxSchemaProviders == 2

\* ------------------------------------------------------------------ inputs

\* "p1/m" with model "m" and "p1" with model "m/m" format to the same key.
ProviderNames == {"p1", "p1/m"}
ModelNames == {"m", "m/m"}
ApiErrors == {"boom"}

\* A run of a single task draws the prompt, the completion and the duration
\* from the wide ranges, a run of several tasks from the narrow ones.
Prompts(n) == IF n = 1 THEN {"", "Hi", "Hello", "Hi there!", "Hello, world"} ELSE {"Hello"}
Completions(n) ==
    IF n = 1 THEN {"", "OK", "World!", "Fine, thanks", "say \"hi\" \\ now"} ELSE {"World!"}
Durations(n) == IF n = 1 THEN 0..MaxProbeDur ELSE {0, 1}

ApiKeys == {"sk-1"}
ModelParams == {[temperature |-> 0]}

ModelConfigs == [name : ModelNames, params : ModelParams]
ModelLists == UNION {[1..n -> ModelConfigs] : n \in 0..MaxModels}
ProviderConfigs == [name : ProviderNames, api_key : ApiKeys, models : ModelLists]

\* The provider lists of at most n providers and at most `budget` models in all.
RECURSIVE ProviderLists(_, _)
ProviderLists(n, budget) ==
    IF n = 0 THEN {<<>>}
    ELSE {<<>>} \cup UNION {
             {<<p>> \o rest : p \in {q \in ProviderConfigs : Len(q.models) = k},
                              rest \in ProviderLists(n - 1, budget - k)} :
                 k \in {m \in 0..MaxModels : m <= budget}}

RECURSIVE CountModels(_)
CountModels(providers) ==
    IF providers = <<>> THEN 0
    ELSE Len(Head(providers).models) + CountModels(Tail(providers))

Configs ==
    UNION {{[providers |-> ps, test_prompt |-> t] : t \in Prompts(CountModels(ps))} :
               ps \in ProviderLists(MaxProviders, MaxTasks)}

\* A mapping read from YAML that lacks one key.
Without(mapping, key) == [k \in DOMAIN mapping \ {key} |-> mapping[k]]

\* The configurations of cfgs with exactly one of the keys the program reads
\* taken out.
MalformedConfigs(cfgs) ==
    UNION {
        {Without(cfg, "providers"), Without(cfg, "test_prompt")}
        \cup {[cfg EXCEPT !.providers[a] = Without(@, key)] :
                  a \in 1..Len(cfg.providers), key \in {"name", "api_key", "models"}}
        \cup UNION {
                 {[cfg EXCEPT !.providers[a].models[j] = Without(@, key)] :
                     j \in 1..Len(cfg.providers[a].models), key \in {"name", "params"}} :
                 a \in 1..Len(cfg.providers)} :
        cfg \in cfgs}

\* What the chat-completion call of one probe does in a run of n tasks: it
\* raises at once, or it returns after `duration` seconds a response whose
\* content is a text or None.
ApiOutcomes(n) ==
    [kind : {"raise"}, text : ApiErrors, duration : {0}]
    \cup [kind : {"none"}, text : {""}, duration : {m \in {0} : n = 1}]
    \cup [kind : {"text"}, text : Completions(n), duration : Durations(n)]

\* ------------------------------------------------------------------ state

VARIABLES
    config,         \* self.config
    max_workers,    \* self.max_workers
    now,            \* time.perf_counter(), in whole seconds
    timer,          \* per task: the clock at its submission and at the entry of its
                    \* probe, and the probe's start_time
    pc,             \* position of the main thread
    clients,        \* self.clients: provider name -> handle
    error,          \* the message of the exception that left __init__ or run_benchmark, or ""
    exit_code,      \* the process's exit status, -1 while it runs
    test_tasks,     \* run_benchmark's test_tasks
    futures,        \* the submitted futures, in submission order
    work_queue,     \* the executor's work queue (indices of futures)
    threads,        \* number of worker threads the executor has spawned
    idle_semaphore, \* the executor's _idle_semaphore
    started,        \* per task: how many times its probe was entered
    outcomes,       \* per task: what its chat-completion call did, <<>> before
    completion,     \* the tasks whose probe has ended, in that order, each with
                    \* whether it ended before as_completed was entered
    finished_early, \* as_completed: futures found finished on entry, not yet yielded
    waiter,         \* as_completed: futures finished since entry, in completion order
    yielded,        \* futures the collecting loop has handled
    results,        \* run_benchmark's results: key -> entry
    results_order,  \* the keys of results in insertion order
    log,            \* the documents written by _save_log, in order
    log_file,       \* the texts json.dump wrote, one per call of _save_log
    returned        \* what run_benchmark returned: <<mapping>>, or <<>> before

vars == <<config, max_workers, now, timer, pc, clients, error, exit_code, test_tasks, futures,
          work_queue, threads, idle_semaphore, started, outcomes, completion, finished_early,
          waiter, yielded, results, results_order, log, log_file, returned>>

\* ------------------------------------------------------------------ __init__

provider_names(cfg) == [i \in 1..Len(cfg.providers) |-> cfg.providers[i].name]

NameSet(names) == {names[i] : i \in 1..Len(names)}

NameCount(names, name) == Cardinality({i \in 1..Len(names) : names[i] = name})

\* Mutants of the duplicate test: the comparison turned round; an empty list refused.
HasDuplicatesReversed(names) == Len(names) < Cardinality(NameSet(names))

HasDuplicatesOrEmpty(names) ==
    names = <<>> \/ Len(names) # Cardinality(NameSet(names))

HasDuplicates(names) == Len(names) # Cardinality(NameSet(names))

Duplicates(names) == {name \in NameSet(names) : NameCount(names, name) > 1}

\* The orders in which the set `duplicates` may be iterated.
Orderings(S) ==
    {s \in [1..Cardinality(S) -> S] : \A a, b \in 1..Cardinality(S) : a # b => s[a] # s[b]}

RECURSIVE Join(_)
Join(names) ==
    IF names = <<>> THEN ""
    ELSE IF Len(names) = 1 THEN names[1]
    ELSE names[1] \o ", " \o Join(Tail(names))

\* Stands for the source's literal prefix of the message (not ASCII there).
DuplicateMessagePrefix == "duplicate provider names: "

DuplicateMessage(order) == DuplicateMessagePrefix \o Join(order)

\* The key whose lookup raises KeyError in the list of provider names
\* (config['providers'], p['name']), <<>> when none does.
NamesKeyError(cfg) ==
    IF "providers" \notin DOMAIN cfg THEN <<"providers">>
    ELSE IF \E a \in 1..Len(cfg.providers) : "name" \notin DOMAIN cfg.providers[a]
         THEN <<"name">>
         ELSE <<>>

\* The key whose lookup raises KeyError in the loop that builds the clients
\* (provider['api_key']), <<>> when none does.
ClientsKeyError(cfg) ==
    IF \E a \in 1..Len(cfg.providers) : "api_key" \notin DOMAIN cfg.providers[a]
    THEN <<"api_key">>
    ELSE <<>>

\* One handle per provider; a later provider of the same name would replace it.
Handle(provider) == [for_provider |-> provider.name, api_key |-> provider.api_key]

\* Mutant: a handle for the first provider only.
BuildClientsFirstOnly(cfg) ==
    [name \in {cfg.providers[i].name : i \in {1} \cap (1..Len(cfg.providers))} |->
        Handle(cfg.providers[1])]

BuildClients(cfg) ==
    [name \in NameSet(provider_names(cfg)) |->
        Handle(cfg.providers[CHOOSE i \in 1..Len(cfg.providers) :
            /\ cfg.providers[i].name = name
            /\ \A j \in 1..Len(cfg.providers) : cfg.providers[j].name = name => j <= i])]

\* ------------------------------------------------------------------ _test_single_model

\* Mutant: the quotient rounded up.
_count_tokens_ceil(text) == (Len(text) + 3) \div 4

_count_tokens(text) == Len(text) \div 4

NoResult ==
    [kind |-> "none", speed |-> <<0, 1>>, tokens |-> 0, response |-> "",
     exc |-> "", msg |-> ""]

\* The probe raised an exception of class `exc` whose str() is `msg`.
Raised(exc, msg) ==
    [kind |-> "exc", speed |-> <<0, 1>>, tokens |-> 0, response |-> "",
     exc |-> exc, msg |-> msg]

Returned(speed, tokens, response) ==
    [kind |-> "ok", speed |-> speed, tokens |-> tokens, response |-> response,
     exc |-> "", msg |-> ""]

KeyErrorMessage(name) == "'" \o name \o "'"
NoneLenMessage == "object of type 'NoneType' has no len()"
ZeroDivisionMessage == "float division by zero"

\* Stands for the outcome of a call that is never made.
NoCall == [kind |-> "nocall", text |-> "", duration |-> 0]

\* Mutant: the timer started when the task was submitted.
StartTimeAtSubmit(entry, submitted) == submitted

\* start_time = time.perf_counter(), read by the worker that has entered the
\* probe, at `entry`; the task was submitted at `submitted`.
StartTime(entry, submitted) == entry

\* The probe from the registry lookup to its return value or its exception,
\* given what the chat-completion call does (`outcome`) and the clock's
\* readings before and after the call.
Probe(registry, provider_name, cfg, outcome, start_time, end_time) ==
    IF provider_name \notin DOMAIN registry THEN Raised("KeyError", KeyErrorMessage(provider_name))
    ELSE IF "test_prompt" \notin DOMAIN cfg THEN Raised("KeyError", KeyErrorMessage("test_prompt"))
    ELSE IF outcome.kind = "raise" THEN Raised("APIError", outcome.text)
    ELSE IF outcome.kind = "none" THEN Raised("TypeError", NoneLenMessage)
    ELSE LET duration == end_time - start_time
             prompt_tokens == _count_tokens(cfg.test_prompt)
             completion_tokens == _count_tokens(outcome.text)
             total_tokens == prompt_tokens + completion_tokens
         IN  IF duration = 0 THEN Raised("ZeroDivisionError", ZeroDivisionMessage)
             ELSE Returned(<<total_tokens, duration>>, total_tokens, outcome.text)

\* ------------------------------------------------------------------ run_benchmark

\* The first non-empty sequence of a sequence of sequences, <<>> when all are empty.
RECURSIVE FirstOf(_)
FirstOf(seqs) ==
    IF seqs = <<>> THEN <<>>
    ELSE IF Head(seqs) # <<>> THEN Head(seqs) ELSE FirstOf(Tail(seqs))

\* The key whose lookup raises KeyError first while test_tasks is built
\* (provider['models'], model['name'], model['params']), <<>> when none does.
ModelKeyError(model) ==
    IF "name" \notin DOMAIN model THEN <<"name">>
    ELSE IF "params" \notin DOMAIN model THEN <<"params">>
    ELSE <<>>

ProviderKeyError(provider) ==
    IF "models" \notin DOMAIN provider THEN <<"models">>
    ELSE FirstOf([j \in 1..Len(provider.models) |-> ModelKeyError(provider.models[j])])

TasksKeyError(cfg) ==
    FirstOf([a \in 1..Len(cfg.providers) |-> ProviderKeyError(cfg.providers[a])])

ProviderTasks(provider) ==
    [j \in 1..Len(provider.models) |->
        [provider |-> provider.name, model_name |-> provider.models[j].name,
         params |-> provider.models[j].params]]

RECURSIVE TaskList(_)
TaskList(providers) ==
    IF providers = <<>> THEN <<>>
    ELSE ProviderTasks(Head(providers)) \o TaskList(Tail(providers))

TaskKey(task) == task.provider \o "/" \o task.model_name

\* round(speed, 2) of the quotient speed[1] / speed[2], in hundredths: to the
\* nearest hundredth, a tie to the even one.
Round2(speed) ==
    LET n == 100 * speed[1]
        q == n \div speed[2]
        r == n % speed[2]
    IN  IF 2 * r < speed[2] THEN q
        ELSE IF 2 * r > speed[2] THEN q + 1
        ELSE IF q % 2 = 0 THEN q ELSE q + 1

SuccessEntry(result) ==
    [speed |-> Round2(result.speed), tokens |-> result.tokens,
     status |-> "success", response |-> result.response]

FailedPrefix == "failed: "

FailedEntry(msg) == [speed |-> 0, tokens |-> 0, status |-> FailedPrefix \o msg]

\* Mutant: the arithmetic errors left out.
ExceptionClassesNoArithmetic == {"APIError", "KeyError", "TypeError"}

\* The classes an "except Exception" clause catches, among those a probe raises.
ExceptionClasses == {"APIError", "KeyError", "TypeError", "ZeroDivisionError"}

\* Mutant: a clause that catches the API's errors only.
CaughtApiErrorsOnly(result) == result.exc = "APIError"

\* except Exception as e
Caught(result) == result.exc \in ExceptionClasses

\* The body of the collecting loop's try statement for one future.
EntryOf(result) ==
    IF result.kind = "ok" THEN SuccessEntry(result) ELSE FailedEntry(result.msg)

\* Mutant: a write that drops the entries of the other keys.
PutLossy(mapping, key, entry) == [k \in {key} |-> entry]

\* results[key] = entry
Put(mapping, key, entry) ==
    [k \in DOMAIN mapping \cup {key} |-> IF k = key THEN entry ELSE mapping[k]]

\* Mutant: a new key put in front.
PutOrderFront(order, key) ==
    IF \E n \in 1..Len(order) : order[n] = key THEN order ELSE <<key>> \o order

\* A dict keeps a key at the place of its first insertion.
PutOrder(order, key) ==
    IF \E n \in 1..Len(order) : order[n] = key THEN order ELSE Append(order, key)

\* data.get('response', '')
GetResponse(entry) == IF "response" \in DOMAIN entry THEN entry.response ELSE ""

\* Mutant: the filter on the status left out.
ResponsesUnfiltered(mapping) == [k \in DOMAIN mapping |-> GetResponse(mapping[k])]

Responses(mapping) ==
    [k \in {m \in DOMAIN mapping : mapping[m].status = "success"} |->
        GetResponse(mapping[k])]

\* _save_log's document; the timestamp is left out.
LogData(mapping, responses) == [results |-> mapping, responses |-> responses]

\* ------------------------------------------------------------------ _save_log

\* json.dump writes a number and a string as a lexeme; a document is kept here
\* as its members in the order written, each a pair of lexemes or, for an
\* object, a lexeme and the members of the object.

DigitChar(d) == SubSeq("0123456789", d + 1, d + 1)

RECURSIVE IntText(_)
IntText(n) == IF n < 10 THEN DigitChar(n) ELSE IntText(n \div 10) \o DigitChar(n % 10)

\* repr of the float of h hundredths: the shortest decimal that reads back.
FloatText(h) ==
    IntText(h \div 100) \o "." \o
        (IF h % 10 = 0 THEN DigitChar((h % 100) \div 10)
         ELSE DigitChar((h % 100) \div 10) \o DigitChar(h % 10))

\* Mutant: the quote and the backslash written as they are.
EscapeCharNone(c) == c

EscapeChar(c) == IF c = "\"" THEN "\\\"" ELSE IF c = "\\" THEN "\\\\" ELSE c

\* The positions of `text` from the n-th on whose character is written escaped.
EscapedFrom(text, n) == {a \in n..Len(text) : EscapeChar(SubSeq(text, a, a)) # SubSeq(text, a, a)}

\* The escaped text of `text` from its n-th character on: the characters up to
\* the next one to escape as they are, that one escaped, then the rest.
RECURSIVE EscapeFrom(_, _)
EscapeFrom(text, n) ==
    IF EscapedFrom(text, n) = {} THEN SubSeq(text, n, Len(text))
    ELSE LET a == CHOOSE b \in EscapedFrom(text, n) : \A c \in EscapedFrom(text, n) : b <= c
         IN  SubSeq(text, n, a - 1) \o EscapeChar(SubSeq(text, a, a)) \o EscapeFrom(text, a + 1)

Escape(text) == EscapeFrom(text, 1)

StringText(text) == "\"" \o Escape(text) \o "\""

\* An entry's members: a success entry's speed is a float, a failed entry's
\* the int 0; tokens is an int.
DumpEntry(entry) ==
    IF "response" \in DOMAIN entry
    THEN << <<StringText("speed"), FloatText(entry.speed)>>,
            <<StringText("tokens"), IntText(entry.tokens)>>,
            <<StringText("status"), StringText(entry.status)>>,
            <<StringText("response"), StringText(entry.response)>> >>
    ELSE << <<StringText("speed"), IntText(entry.speed)>>,
            <<StringText("tokens"), IntText(entry.tokens)>>,
            <<StringText("status"), StringText(entry.status)>> >>

\* The keys of `order` that `mapping` has, in that order.
RECURSIVE KeysIn(_, _)
KeysIn(order, mapping) ==
    IF order = <<>> THEN <<>>
    ELSE IF Head(order) \in DOMAIN mapping
         THEN <<Head(order)>> \o KeysIn(Tail(order), mapping)
         ELSE KeysIn(Tail(order), mapping)

\* json.dump(log_data, f, indent=2, ensure_ascii=False), the timestamp left out.
Dump(log_data, order) ==
    [results |->
        [n \in 1..Len(order) |->
            <<StringText(order[n]), DumpEntry(log_data.results[order[n]])>>],
     responses |->
        LET keys == KeysIn(order, log_data.responses) IN
        [n \in 1..Len(keys) |->
            <<StringText(keys[n]), StringText(log_data.responses[keys[n]])>>]]

\* ------------------------------------------------------------------ the executor

NewFuture(key) == [key |-> key, state |-> "PENDING", result |-> NoResult]

Running(fs) == {i \in 1..Len(fs) : fs[i].state = "RUNNING"}

Finished(fs) == {i \in 1..Len(fs) : fs[i].state = "FINISHED"}

\* Mutant: the work item queued twice.
EnqueueTwice(queue, i) == Append(Append(queue, i), i)

\* submit puts one work item on the queue.
Enqueue(queue, i) == Append(queue, i)

\* Mutant: the pool's size is not looked at.
SpawnUnbounded(n, limit) == TRUE

\* _adjust_thread_count: a new worker thread unless one is idle or the pool is full.
SpawnAllowed(n, limit) == n < limit

\* Mutant: one worker of the pool never takes work.
WorkerFreeButOne(fs, n) == Cardinality(Running(fs)) < n - 1

\* A worker thread is free to take the next work item.
WorkerFree(fs, n) == Cardinality(Running(fs)) < n

\* ------------------------------------------------------------------ initial state

Start ==
    /\ max_workers \in 1..MaxWorkers
    /\ now = 0
    /\ timer = <<>>
    /\ pc = "start"
    /\ clients = <<>>
    /\ error = ""
    /\ exit_code = -1
    /\ test_tasks = <<>>
    /\ futures = <<>>
    /\ work_queue = <<>>
    /\ threads = 0
    /\ idle_semaphore = 0
    /\ started = <<>>
    /\ outcomes = <<>>
    /\ completion = <<>>
    /\ finished_early = {}
    /\ waiter = <<>>
    /\ yielded = {}
    /\ results = <<>>
    /\ results_order = <<>>
    /\ log = <<>>
    /\ log_file = <<>>
    /\ returned = <<>>

Init == config \in Configs /\ Start

\* The process started on a configuration file that lacks a key.
InitSchema ==
    /\ config \in MalformedConfigs({cfg \in Configs : Len(cfg.providers) <= MaxSchemaProviders})
    /\ Start

\* ------------------------------------------------------------------ main thread

\* OpenAIBenchmark(...): __init__ raises ValueError on duplicate provider names.
ConstructFails ==
    /\ pc = "start"
    /\ NamesKeyError(config) = <<>>
    /\ HasDuplicates(provider_names(config))
    /\ \E order \in Orderings(Duplicates(provider_names(config))) :
           error' = DuplicateMessage(order)
    /\ pc' = "config_error"
    /\ UNCHANGED <<config, max_workers, now, timer, clients, exit_code, test_tasks, futures,
                   work_queue, threads, idle_semaphore, started, outcomes, completion, finished_early,
                   waiter, yielded, results, results_order, log, log_file, returned>>

\* OpenAIBenchmark(...): __init__ builds the client registry.
Construct ==
    /\ pc = "start"
    /\ NamesKeyError(config) = <<>>
    /\ ~HasDuplicates(provider_names(config))
    /\ ClientsKeyError(config) = <<>>
    /\ clients' = BuildClients(config)
    /\ pc' = "constructed"
    /\ UNCHANGED <<config, max_workers, now, timer, error, exit_code, test_tasks, futures,
                   work_queue, threads, idle_semaphore, started, outcomes, completion, finished_early,
                   waiter, yielded, results, results_order, log, log_file, returned>>

\* OpenAIBenchmark(...): a lookup of __init__ raises KeyError, which __main__
\* does not catch: the interpreter prints the traceback and exits with 1.
ConstructKeyError ==
    /\ pc = "start"
    /\ \E key \in {"providers", "name", "api_key"} :
        /\ \/ NamesKeyError(config) = <<key>>
           \/ /\ NamesKeyError(config) = <<>>
              /\ ~HasDuplicates(provider_names(config))
              /\ ClientsKeyError(config) = <<key>>
        /\ error' = "KeyError: " \o KeyErrorMessage(key)
    /\ pc' = "crashed"
    /\ exit_code' = 1
    /\ UNCHANGED <<config, max_workers, now, timer, clients, test_tasks, futures,
                   work_queue, threads, idle_semaphore, started, outcomes, completion, finished_early,
                   waiter, yielded, results, results_order, log, log_file, returned>>

\* __main__: except ValueError, print and exit(1).
ExitOnConfigError ==
    /\ pc = "config_error"
    /\ pc' = "exit"
    /\ exit_code' = 1
    /\ UNCHANGED <<config, max_workers, now, timer, clients, error, test_tasks, futures,
                   work_queue, threads, idle_semaphore, started, outcomes, completion, finished_early,
                   waiter, yielded, results, results_order, log, log_file, returned>>

\* run_benchmark up to the creation of the executor: results = {}, test_tasks.
BeginRun ==
    /\ pc = "constructed"
    /\ TasksKeyError(config) = <<>>
    /\ results' = <<>>
    /\ results_order' = <<>>
    /\ test_tasks' = TaskList(config.providers)
    /\ started' = [i \in 1..Len(TaskList(config.providers)) |-> 0]
    /\ outcomes' = [i \in 1..Len(TaskList(config.providers)) |-> <<>>]
    /\ completion' = <<>>
    /\ pc' = "submit"
    /\ UNCHANGED <<config, max_workers, now, timer, clients, error, exit_code, futures,
                   work_queue, threads, idle_semaphore, finished_early, waiter,
                   yielded, log, log_file, returned>>

\* run_benchmark: a lookup raises KeyError while test_tasks is built, before
\* the executor exists; __main__ does not catch it.
RunKeyError ==
    /\ pc = "constructed"
    /\ \E key \in {"models", "name", "params"} :
        /\ TasksKeyError(config) = <<key>>
        /\ error' = "KeyError: " \o KeyErrorMessage(key)
    /\ results' = <<>>
    /\ results_order' = <<>>
    /\ pc' = "crashed"
    /\ exit_code' = 1
    /\ UNCHANGED <<config, max_workers, now, timer, clients, test_tasks, futures,
                   work_queue, threads, idle_semaphore, started, outcomes, completion, finished_early,
                   waiter, yielded, log, log_file, returned>>

\* executor.submit for the next task of test_tasks.
Submit ==
    /\ pc = "submit"
    /\ Len(futures) < Len(test_tasks)
    /\ LET i == Len(futures) + 1 IN
        /\ futures' = Append(futures, NewFuture(TaskKey(test_tasks[i])))
        /\ work_queue' = Enqueue(work_queue, i)
    /\ timer' = Append(timer, [submitted |-> now, entered |-> -1, start_time |-> -1])
    /\ IF idle_semaphore > 0
       THEN idle_semaphore' = idle_semaphore - 1 /\ threads' = threads
       ELSE /\ idle_semaphore' = idle_semaphore
            /\ threads' = IF SpawnAllowed(threads, max_workers) THEN threads + 1 ELSE threads
    /\ UNCHANGED <<config, max_workers, now, pc, clients, error, exit_code, test_tasks,
                   started, outcomes, completion, finished_early, waiter, yielded, results, results_order,
                   log, log_file, returned>>

\* The first step of as_completed(futures): the futures already finished are
\* set aside, a waiter is installed on the others.
EnterAsCompleted ==
    /\ pc = "submit"
    /\ Len(futures) = Len(test_tasks)
    /\ finished_early' = Finished(futures)
    /\ waiter' = <<>>
    /\ pc' = "collect"
    /\ UNCHANGED <<config, max_workers, now, timer, clients, error, exit_code, test_tasks, futures,
                   work_queue, threads, idle_semaphore, started, outcomes, completion, yielded, results,
                   results_order, log, log_file, returned>>

\* One turn of the collecting loop for future i.
CollectFuture(i) ==
    /\ yielded' = yielded \cup {i}
    /\ IF futures[i].result.kind = "ok" \/ Caught(futures[i].result)
       THEN /\ results' = Put(results, futures[i].key, EntryOf(futures[i].result))
            /\ results_order' = PutOrder(results_order, futures[i].key)
            /\ pc' = pc
       ELSE \* the exception leaves the loop and run_benchmark
            /\ pc' = "raised"
            /\ UNCHANGED <<results, results_order>>

\* as_completed yields the futures found finished on entry, in the order of a set.
CollectEarly ==
    /\ pc = "collect"
    /\ \E i \in finished_early :
        /\ CollectFuture(i)
        /\ finished_early' = finished_early \ {i}
    /\ UNCHANGED <<config, max_workers, now, timer, clients, error, exit_code, test_tasks,
                   futures, work_queue, threads, idle_semaphore, started, outcomes, completion,
                   waiter, log, log_file, returned>>

\* as_completed then yields the others in the order they finished.
CollectLate ==
    /\ pc = "collect"
    /\ finished_early = {}
    /\ waiter # <<>>
    /\ CollectFuture(Head(waiter))
    /\ waiter' = Tail(waiter)
    /\ UNCHANGED <<config, max_workers, now, timer, clients, error, exit_code, test_tasks,
                   futures, work_queue, threads, idle_semaphore, started, outcomes, completion,
                   finished_early, log, log_file, returned>>

\* The loop is over and the executor shut down: responses, _save_log, return.
FinishRun ==
    /\ pc = "collect"
    /\ yielded = 1..Len(futures)
    /\ log' = Append(log, LogData(results, Responses(results)))
    /\ log_file' = Append(log_file,
                          Dump(LogData(results, Responses(results)), results_order))
    /\ returned' = <<results>>
    /\ pc' = "returned"
    /\ UNCHANGED <<config, max_workers, now, timer, clients, error, exit_code, test_tasks, futures,
                   work_queue, threads, idle_semaphore, started, outcomes, completion, finished_early,
                   waiter, yielded, results, results_order>>

\* __main__: print_results, and the process ends.
PrintResults ==
    /\ pc = "returned"
    /\ pc' = "exit"
    /\ exit_code' = 0
    /\ UNCHANGED <<config, max_workers, now, timer, clients, error, test_tasks, futures,
                   work_queue, threads, idle_semaphore, started, outcomes, completion, finished_early,
                   waiter, yielded, results, results_order, log, log_file, returned>>

\* ------------------------------------------------------------------ worker threads

\* A free worker takes the next work item and enters _test_single_model.
WorkerStart ==
    /\ work_queue # <<>>
    /\ WorkerFree(futures, threads)
    /\ LET i == Head(work_queue) IN
        /\ futures' = [futures EXCEPT ![i].state = "RUNNING"]
        /\ started' = [started EXCEPT ![i] = @ + 1]
        /\ timer' = [timer EXCEPT ![i].entered = now,
                                  ![i].start_time = StartTime(now, timer[i].submitted)]
    /\ work_queue' = Tail(work_queue)
    /\ UNCHANGED <<config, max_workers, now, pc, clients, error, exit_code, test_tasks,
                   threads, idle_semaphore, outcomes, completion, finished_early, waiter, yielded, results,
                   results_order, log, log_file, returned>>

\* _test_single_model returns or raises; the future gets the result or the
\* exception, its waiters are told, and the worker is idle again.
WorkerFinish ==
    \E i \in Running(futures) :
        /\ IF test_tasks[i].provider \in DOMAIN clients /\ "test_prompt" \in DOMAIN config
           THEN \* the call ends outcome.duration seconds after the entry
                \E outcome \in ApiOutcomes(Len(test_tasks)) :
                    /\ timer[i].entered + outcome.duration >= now
                    /\ now' = timer[i].entered + outcome.duration
                    /\ futures' = [futures EXCEPT
                           ![i].state = "FINISHED",
                           ![i].result = Probe(clients, test_tasks[i].provider,
                                               config, outcome,
                                               timer[i].start_time, now')]
                    /\ outcomes' = [outcomes EXCEPT ![i] = <<outcome>>]
           ELSE \* a lookup raises before the call is made
                /\ now' = now
                /\ futures' = [futures EXCEPT
                       ![i].state = "FINISHED",
                       ![i].result = Probe(clients, test_tasks[i].provider,
                                           config, NoCall, timer[i].start_time, now)]
                /\ outcomes' = outcomes
        /\ waiter' = IF pc = "collect" THEN Append(waiter, i) ELSE waiter
        /\ completion' = Append(completion, [task |-> i, early |-> pc # "collect"])
        /\ idle_semaphore' = idle_semaphore + 1
        /\ UNCHANGED <<config, max_workers, timer, pc, clients, error, exit_code, test_tasks,
                       work_queue, threads, started, finished_early, yielded, results,
                       results_order, log, log_file, returned>>

Next ==
    \/ ConstructFails
    \/ Construct
    \/ ExitOnConfigError
    \/ BeginRun
    \/ Submit
    \/ EnterAsCompleted
    \/ CollectEarly
    \/ CollectLate
    \/ FinishRun
    \/ PrintResults
    \/ WorkerStart
    \/ WorkerFinish

Spec == Init /\ [][Next]_vars

\* The steps of the thread that runs __main__.
MainThread ==
    \/ ConstructFails
    \/ Construct
    \/ ExitOnConfigError
    \/ BeginRun
    \/ Submit
    \/ EnterAsCompleted
    \/ CollectEarly
    \/ CollectLate
    \/ FinishRun
    \/ PrintResults

\* The main thread goes on while it can; a worker thread that can take a work
\* item takes one; a chat-completion call that was made returns or raises.
SpecLive ==
    /\ Spec
    /\ WF_vars(MainThread)
    /\ WF_vars(WorkerStart)
    /\ WF_vars(WorkerFinish)

\* The program on a configuration that lacks a key.
NextSchema ==
    \/ Next
    \/ ConstructKeyError
    \/ RunKeyError

SpecSchema == InitSchema /\ [][NextSchema]_vars

\* ------------------------------------------------------------------ types

TypeOK ==
    /\ pc \in {"start", "config_error", "constructed", "submit", "collect",
               "raised", "returned", "exit", "crashed"}
    /\ threads \in 0..max_workers
    /\ Len(futures) <= Len(test_tasks)

\* ------------------------------------------------------------------ helpers of the claims

StartsWith(s, prefix) == Len(s) >= Len(prefix) /\ SubSeq(s, 1, Len(prefix)) = prefix

Contains(s, sub) == \E a \in 1..(Len(s) - Len(sub) + 1) : SubSeq(s, a, a + Len(sub) - 1) = sub

Abs(n) == IF n < 0 THEN -n ELSE n

\* s hundredths is a nearest hundredth of tokens / duration.
NearestHundredth(s, tokens, duration) == 2 * Abs(100 * tokens - s * duration) <= duration

Tasks == 1..Len(futures)

\* The chat-completion call of task i has returned or raised.
Called(i) == outcomes[i] # <<>>

\* The results when the futures are collected in the order of submission.
RECURSIVE ResultsInOrder(_, _)
ResultsInOrder(fs, n) ==
    IF n = 0 THEN <<>>
    ELSE Put(ResultsInOrder(fs, n - 1), fs[n].key, EntryOf(fs[n].result))

\* ------------------------------------------------------------------ C1

\* C1: when run_benchmark has returned, the result mapping has exactly as many
\* entries as the configuration lists models (the sum of the Mi), one per
\* generated task, keyed "{provider}/{model}".
C1_OneEntryPerTask ==
    returned # <<>> =>
        /\ Cardinality(DOMAIN returned[1]) = CountModels(config.providers)
        /\ DOMAIN returned[1] = {TaskKey(test_tasks[i]) : i \in 1..Len(test_tasks)}

\* ------------------------------------------------------------------ C2

\* C2: at every point of a run at most max_workers probes are in flight
\* (entered _test_single_model and not yet returned or raised).
C2_InFlightAtMostLimit == Cardinality(Running(futures)) <= max_workers

C2_Witness ==
    /\ Cardinality(Running(futures)) = max_workers
    /\ work_queue # <<>>

\* ------------------------------------------------------------------ C3

\* C3: when the collecting loop handles a task whose probe raised (in the API
\* call, in the token count or in the division), it records under the task's
\* key the entry speed 0, tokens 0, status "failed: " followed by the message,
\* and the exception does not leave run_benchmark.
C3_FailureRecorded ==
    [][\A i \in Tasks :
          (i \in yielded' \ yielded /\ futures[i].result.kind = "exc") =>
              /\ pc' = "collect"
              /\ futures[i].key \in DOMAIN results'
              /\ results'[futures[i].key].speed = 0
              /\ results'[futures[i].key].tokens = 0
              /\ StartsWith(results'[futures[i].key].status, "failed: ")
              /\ results'[futures[i].key].status = "failed: " \o futures[i].result.msg
      ]_vars

C3_Witness ==
    /\ pc = "returned"
    /\ \E i, j \in yielded :
        /\ outcomes[i][1].kind = "raise"
        /\ outcomes[j][1].kind = "text" /\ outcomes[j][1].duration = 0
        /\ futures[i].key # futures[j].key
        /\ returned[1][futures[i].key] =
               [speed |-> 0, tokens |-> 0, status |-> "failed: boom"]
        /\ returned[1][futures[j].key] =
               [speed |-> 0, tokens |-> 0, status |-> "failed: float division by zero"]

\* ------------------------------------------------------------------ C4

\* C4: when some probes have failed, every task has still been executed and
\* the entry of every task whose probe succeeded records that task's own
\* outcome: status "success" with its own speed and tokens.
C4_FailureIsolation ==
    (returned # <<>> /\ \E j \in Tasks : futures[j].result.kind = "exc") =>
        \A i \in Tasks :
            /\ started[i] = 1
            /\ futures[i].result.kind = "ok" =>
                /\ returned[1][futures[i].key].status = "success"
                /\ returned[1][futures[i].key].tokens = futures[i].result.tokens
                /\ returned[1][futures[i].key].speed = Round2(futures[i].result.speed)

\* ------------------------------------------------------------------ C5

\* C5: the probe of each generated task is entered at most once, and exactly
\* once by the time run_benchmark returns, whether it failed or not; there is
\* one task per configured model.
C5_ExactlyOnce ==
    /\ \A i \in DOMAIN started : started[i] <= 1
    /\ returned # <<>> =>
        /\ Len(started) = CountModels(config.providers)
        /\ \A i \in DOMAIN started : started[i] = 1

C5_Witness ==
    /\ returned # <<>>
    /\ Len(futures) >= 2
    /\ \E i \in Tasks : futures[i].result.kind = "exc" /\ started[i] = 1

\* ------------------------------------------------------------------ C6

\* C6: with two or more providers of one name, construction fails with a
\* message that lists every duplicated name, and no client handle is made, no
\* task generated or submitted, no probe entered and no log written.
C6_DuplicatesFailFirst ==
    (\E a, b \in 1..Len(config.providers) :
        a # b /\ config.providers[a].name = config.providers[b].name) =>
        /\ pc \in {"start", "config_error", "exit"}
        /\ pc # "start" =>
            /\ StartsWith(error, DuplicateMessagePrefix)
            /\ \A a, b \in 1..Len(config.providers) :
                (a # b /\ config.providers[a].name = config.providers[b].name) =>
                    Contains(SubSeq(error, Len(DuplicateMessagePrefix) + 1, Len(error)),
                             config.providers[a].name)
        /\ pc = "exit" => exit_code = 1
        /\ clients = <<>>
        /\ test_tasks = <<>>
        /\ futures = <<>>
        /\ started = <<>>
        /\ threads = 0
        /\ log = <<>>
        /\ returned = <<>>

C6_Witness ==
    /\ pc = "config_error"
    /\ Len(config.providers) = 4
    /\ error = DuplicateMessagePrefix \o "p1/m, p1"

\* ------------------------------------------------------------------ C7

\* C7: when the collecting loop handles a task whose call returned the text C
\* after a duration D > 0, with the prompt P, the entry it records has tokens
\* floor(len(P)/4) + floor(len(C)/4), as speed the hundredth nearest to
\* tokens / D, status "success" and the response C; "Hello", "World!" and
\* D = 2 give tokens 2 and speed 1.0.
C7_SuccessEntry ==
    [][\A i \in Tasks :
          (/\ i \in yielded' \ yielded
           /\ Called(i)
           /\ outcomes[i][1].kind = "text"
           /\ outcomes[i][1].duration > 0) =>
              LET P == config.test_prompt
                  C == outcomes[i][1].text
                  D == outcomes[i][1].duration
                  tokens == (Len(P) \div 4) + (Len(C) \div 4)
                  entry == results'[futures[i].key]
              IN  /\ entry.tokens = tokens
                  /\ NearestHundredth(entry.speed, tokens, D)
                  /\ entry.status = "success"
                  /\ entry.response = C
                  /\ (P = "Hello" /\ C = "World!" /\ D = 2) =>
                        entry.tokens = 2 /\ entry.speed = 100
      ]_vars

C7_Witness ==
    /\ config.test_prompt = "Hello"
    /\ \E i \in yielded :
        /\ outcomes[i][1] = [kind |-> "text", text |-> "World!", duration |-> 2]
        /\ results[futures[i].key] =
               [speed |-> 100, tokens |-> 2, status |-> "success", response |-> "World!"]

\* ------------------------------------------------------------------ C8

\* C8: with the outcome of every probe given, the mapping run_benchmark
\* returns is the same for every completion order: it is the mapping of the
\* run whose tasks complete in the order of submission.
C8_SameContentForEveryOrder ==
    returned # <<>> => returned[1] = ResultsInOrder(futures, Len(futures))

\* ------------------------------------------------------------------ C9

\* C9: the log is written at most once, exactly once by the time
\* run_benchmark returns, and only when every submitted task has resolved and
\* been collected; it holds the whole result mapping, and its responses are
\* those of the entries whose status is "success", no failed one among them.
C9_LogOnceAfterAll ==
    /\ Len(log) <= 1
    /\ returned # <<>> => Len(log) = 1
    /\ Len(log) = 1 =>
        /\ Len(futures) = Len(test_tasks)
        /\ Running(futures) = {}
        /\ work_queue = <<>>
        /\ Finished(futures) = Tasks
        /\ log[1].results = results
        /\ DOMAIN log[1].responses = {k \in DOMAIN results : results[k].status = "success"}
        /\ \A k \in DOMAIN log[1].responses :
            /\ log[1].responses[k] = results[k].response
            /\ ~StartsWith(results[k].status, "failed: ")

C9_Witness ==
    /\ Len(log) = 1
    /\ \E k \in DOMAIN results : results[k].status = "success"
    /\ \E k \in DOMAIN results : StartsWith(results[k].status, "failed: ")
    /\ DOMAIN log[1].responses # DOMAIN results
    /\ DOMAIN log[1].responses # {}

\* ------------------------------------------------------------------ C10

\* C10: with an empty provider list the run raises nothing, enters no probe
\* and returns the empty mapping.
C10_EmptyConfig ==
    config.providers = <<>> =>
        /\ pc \notin {"config_error", "raised"}
        /\ error = ""
        /\ exit_code # 1
        /\ futures = <<>>
        /\ started = <<>>
        /\ pc \in {"returned", "exit"} => returned = << <<>> >>

C10_Witness ==
    /\ config.providers = <<>>
    /\ pc = "returned"
    /\ returned = << <<>> >>
    /\ Len(log) = 1


\* ------------------------------------------------------------------ C11

\* json.load of a document, lexeme by lexeme.

DigitValue(c) == CHOOSE d \in 0..9 : DigitChar(d) = c

\* The value of the first n digits of `text`.
RECURSIVE IntValueTo(_, _)
IntValueTo(text, n) ==
    IF n = 0 THEN 0
    ELSE 10 * IntValueTo(text, n - 1) + DigitValue(SubSeq(text, n, n))

IntValue(text) == IntValueTo(text, Len(text))

\* The positions of a lexeme from the n-th on that hold a quote or a backslash.
MarksFrom(lexeme, n) == {a \in n..Len(lexeme) : SubSeq(lexeme, a, a) \in {"\"", "\\"}}

\* The text of a string lexeme from its n-th character up to the closing
\* quote: the characters before the next quote or backslash as they are; a
\* quote ends the string; a backslash stands for the character after it.
RECURSIVE UnescapeFrom(_, _)
UnescapeFrom(lexeme, n) ==
    LET marks == MarksFrom(lexeme, n) IN
    IF marks = {} THEN SubSeq(lexeme, n, Len(lexeme))
    ELSE LET a == CHOOSE b \in marks : \A c \in marks : b <= c
         IN  IF SubSeq(lexeme, a, a) = "\""
             THEN SubSeq(lexeme, n, a - 1)
             ELSE SubSeq(lexeme, n, a - 1) \o SubSeq(lexeme, a + 1, a + 1)
                      \o UnescapeFrom(lexeme, a + 2)

\* The first character of a string lexeme is its opening quote.
ParseString(lexeme) == UnescapeFrom(lexeme, 2)

\* A number lexeme with a point reads as a float, here in hundredths; one
\* without reads as an int, which as a speed is that many hundreds of hundredths.
ParseNumber(name, lexeme) ==
    IF Contains(lexeme, ".")
    THEN LET p == CHOOSE a \in 1..Len(lexeme) : SubSeq(lexeme, a, a) = "."
             frac == SubSeq(lexeme, p + 1, Len(lexeme))
         IN  100 * IntValue(SubSeq(lexeme, 1, p - 1))
             + (IF Len(frac) = 1 THEN 10 * IntValue(frac) ELSE IntValue(SubSeq(frac, 1, 2)))
    ELSE IF name = "speed" THEN 100 * IntValue(lexeme) ELSE IntValue(lexeme)

ParseValue(name, lexeme) ==
    IF SubSeq(lexeme, 1, 1) = "\"" THEN ParseString(lexeme) ELSE ParseNumber(name, lexeme)

\* The names of the members of an object, in the order read.
Names(members) == [n \in 1..Len(members) |-> ParseString(members[n][1])]

\* The last member of the name wins, as in a dict.
LastOf(names, name) ==
    CHOOSE n \in DOMAIN names :
        /\ names[n] = name
        /\ \A m \in DOMAIN names : names[m] = name => m <= n

LoadEntry(members) ==
    LET names == Names(members) IN
    [name \in {names[n] : n \in DOMAIN names} |->
        ParseValue(name, members[LastOf(names, name)][2])]

Load(document) ==
    [results |->
        LET names == Names(document.results) IN
        [key \in {names[n] : n \in DOMAIN names} |->
            LoadEntry(document.results[LastOf(names, key)][2])],
     responses |->
        LET names == Names(document.responses) IN
        [key \in {names[n] : n \in DOMAIN names} |->
            ParseString(document.responses[LastOf(names, key)][2])]]

\* C11: reading back the document _save_log wrote gives the result mapping of
\* the run (same keys in the same order, same speed, tokens, status and
\* response per key) and, per successful key, the response text of the run.
C11_LogRoundTrip ==
    pc = "returned" =>
        /\ Len(log_file) = 1
        /\ returned = <<results>>
        /\ Names(log_file[1].results) = results_order
        /\ Load(log_file[1]) =
               [results |-> results,
                responses |->
                    [k \in {m \in DOMAIN results : results[m].status = "success"} |->
                        results[k].response]]

C11_Witness ==
    /\ Len(log_file) = 1
    /\ \E k \in DOMAIN results :
        /\ results[k].status = "success"
        /\ results[k].response = "say \"hi\" \\ now"
        /\ results[k].speed % 10 # 0


\* ------------------------------------------------------------------ C12

\* The API call of task i returned a completion after no measurable time.
ZeroDuration(i) ==
    /\ outcomes[i] # <<>>
    /\ outcomes[i][1].kind = "text"
    /\ outcomes[i][1].duration = 0

\* C12: a probe whose measured duration is zero ends in the worker as an
\* exception kept on its future, the worker staying in the pool; the
\* collecting loop records it as speed 0, tokens 0, status "failed: float
\* division by zero" and goes on; run_benchmark is never left by the exception,
\* and when it returns every task has been collected and has an entry under
\* its key.
C12_ZeroDurationHandled ==
    /\ [][\A i \in Tasks :
            (futures[i].state = "RUNNING" /\ futures'[i].state = "FINISHED"
             /\ outcomes'[i][1].kind = "text" /\ outcomes'[i][1].duration = 0) =>
                /\ futures'[i].result.kind = "exc"
                /\ threads' = threads
                /\ idle_semaphore' > idle_semaphore
                /\ pc' = pc
       ]_vars
    /\ [][\A i \in Tasks :
            (i \in yielded' \ yielded /\ ZeroDuration(i)) =>
                /\ pc' = "collect"
                /\ results'[futures[i].key] =
                       [speed |-> 0, tokens |-> 0,
                        status |-> "failed: float division by zero"]
       ]_vars
    /\ []((\E i \in Tasks : ZeroDuration(i)) =>
            /\ pc # "raised"
            /\ returned # <<>> =>
                /\ yielded = Tasks
                /\ \A j \in Tasks : futures[j].key \in DOMAIN returned[1])

C12_Witness ==
    /\ pc = "returned"
    /\ max_workers = 1
    /\ \E i, j \in Tasks :
        /\ i < j
        /\ ZeroDuration(i)
        /\ outcomes[j][1].kind = "text" /\ outcomes[j][1].duration > 0
        /\ futures[i].key # futures[j].key
        /\ returned[1][futures[i].key].status = "failed: float division by zero"
        /\ returned[1][futures[j].key].status = "success"


\* ------------------------------------------------------------------ C13

\* The configuration lacks a key the program requires.
LacksRequiredKey(cfg) ==
    \/ "providers" \notin DOMAIN cfg
    \/ "test_prompt" \notin DOMAIN cfg
    \/ /\ "providers" \in DOMAIN cfg
       /\ \E a \in 1..Len(cfg.providers) :
           \/ "name" \notin DOMAIN cfg.providers[a]
           \/ "api_key" \notin DOMAIN cfg.providers[a]
           \/ "models" \notin DOMAIN cfg.providers[a]
           \/ /\ "models" \in DOMAIN cfg.providers[a]
              /\ \E j \in 1..Len(cfg.providers[a].models) :
                  \/ "name" \notin DOMAIN cfg.providers[a].models[j]
                  \/ "params" \notin DOMAIN cfg.providers[a].models[j]

\* C13: on a configuration that lacks a required key no probe result is ever
\* recorded, no log is written and run_benchmark never returns a mapping: the
\* missing key ends the program before that.
C13_MissingKeyFailsFast ==
    LacksRequiredKey(config) =>
        /\ results = <<>>
        /\ log = <<>>
        /\ returned = <<>>


\* ------------------------------------------------------------------ C14

\* C14: the result mapping changes only in a turn of the collecting loop, and
\* such a turn handles exactly one finished future not handled before and
\* makes exactly one write: the entry of that future under that future's key,
\* every other key keeping its entry. A step of a worker thread (a future
\* starting to run or finishing) leaves the mapping as it is. When
\* run_benchmark returns every future has had its turn.
C14_SingleWriter ==
    /\ [][(results' # results \/ results_order' # results_order \/ yielded' # yielded) =>
            \E i \in Tasks \ yielded :
                /\ futures[i].state = "FINISHED"
                /\ yielded' = yielded \cup {i}
                /\ DOMAIN results' = DOMAIN results \cup {futures[i].key}
                /\ results'[futures[i].key] =
                       IF futures[i].result.kind = "ok"
                       THEN SuccessEntry(futures[i].result)
                       ELSE FailedEntry(futures[i].result.msg)
                /\ \A k \in DOMAIN results \ {futures[i].key} : results'[k] = results[k]
       ]_vars
    /\ [][futures' # futures => (results' = results /\ results_order' = results_order)]_vars
    /\ [](returned # <<>> => yielded = Tasks)

C14_Witness ==
    /\ pc = "collect"
    /\ max_workers = 2
    /\ \E i, j \in Tasks :
        /\ yielded = {i}
        /\ j \in finished_early
        /\ futures[i].key # futures[j].key
        /\ DOMAIN results = {futures[i].key}


\* ------------------------------------------------------------------ C15

\* C15: once run_benchmark has generated its tasks it returns, given that
\* every call returns or raises; a future, once finished, stays as it is (it
\* is not cancelled or replaced); and when the log is written or the mapping
\* returned every task has been submitted, every future is finished and has
\* been collected, and no work item is left.
C15_RunReturns ==
    /\ (pc = "submit") ~> (returned # <<>>)
    /\ [][\A i \in Tasks :
            /\ i \in 1..Len(futures')
            /\ futures[i].state = "FINISHED" => futures'[i] = futures[i]
            /\ futures[i].state = "RUNNING" => futures'[i].state \in {"RUNNING", "FINISHED"}
       ]_vars
    /\ []((returned # <<>> \/ log # <<>>) =>
            /\ Len(futures) = Len(test_tasks)
            /\ \A i \in Tasks : futures[i].state = "FINISHED" /\ i \in yielded
            /\ work_queue = <<>>)

C15_Witness ==
    /\ returned # <<>>
    /\ max_workers = 1
    /\ Len(test_tasks) = 2
    /\ \A i \in Tasks : futures[i].state = "FINISHED" /\ started[i] = 1
    /\ \E i \in Tasks : futures[i].result.kind = "exc"
    /\ \E i \in Tasks : futures[i].result.kind = "ok"


\* ------------------------------------------------------------------ C16

\* C16: the start_time of a probe is the clock's reading when a worker entered
\* the probe, however long the task waited in the queue since its
\* submission; the duration a successful probe divides by is the time its own
\* call took, and a call that took no time is the one that ends in the
\* division by zero.
C16_TimerExcludesQueue ==
    \A i \in Tasks :
        /\ timer[i].submitted >= 0
        /\ futures[i].state = "PENDING" => timer[i].entered = -1 /\ timer[i].start_time = -1
        /\ futures[i].state # "PENDING" =>
            /\ timer[i].entered >= timer[i].submitted
            /\ timer[i].start_time = timer[i].entered
        /\ (futures[i].state = "FINISHED" /\ futures[i].result.kind = "ok") =>
            /\ outcomes[i][1].kind = "text"
            /\ futures[i].result.speed[2] = outcomes[i][1].duration
            /\ futures[i].result.speed[2] <= now - timer[i].entered
        /\ (futures[i].state = "FINISHED" /\ Called(i) /\ outcomes[i][1].kind = "text") =>
            (outcomes[i][1].duration = 0 <=> futures[i].result.exc = "ZeroDivisionError")

\* A task that waited a second in the queue behind another and whose own call
\* took a second.
C16_Witness ==
    /\ max_workers = 1
    /\ \E i \in Tasks :
        /\ timer[i].submitted = 0
        /\ timer[i].entered = 1
        /\ futures[i].state = "FINISHED"
        /\ futures[i].result.kind = "ok"
        /\ futures[i].result.speed[2] = 1
        /\ now = 2


\* ------------------------------------------------------------------ C17

\* The place of task i in the order of completion, of key k in the mapping.
CompletionPos(i) == CHOOSE n \in 1..Len(completion) : completion[n].task = i

KeyPos(order, k) == CHOOSE n \in 1..Len(order) : order[n] = k

\* The tasks whose probe ended before as_completed was entered.
EarlyTasks == {completion[n].task : n \in {m \in 1..Len(completion) : completion[m].early}}

\* C17 as stated: in the returned mapping the entry of a task whose probe
\* ended before another's precedes that one's (here for runs in which no two
\* tasks share a key).
C17_CompletionOrder ==
    (returned # <<>>
     /\ \A a, b \in Tasks : a # b => futures[a].key # futures[b].key) =>
        \A a, b \in Tasks :
            CompletionPos(a) < CompletionPos(b) =>
                KeyPos(results_order, futures[a].key) < KeyPos(results_order, futures[b].key)

\* C17 amended: the collecting loop first handles the futures that had ended
\* before as_completed was entered, in any order, and then the others in the
\* order in which they ended; handling a future puts its key at the end of the
\* mapping unless the key is already there, which then keeps its place.
C17_InsertionOrder ==
    /\ [][\A i \in Tasks :
            i \in yielded' \ yielded =>
                /\ \/ i \in EarlyTasks
                   \/ /\ EarlyTasks \subseteq yielded
                      /\ \A j \in Tasks \ yielded' :
                            futures[j].state = "FINISHED" =>
                                CompletionPos(i) < CompletionPos(j)
                /\ results_order' =
                       IF \E n \in 1..Len(results_order) : results_order[n] = futures[i].key
                       THEN results_order
                       ELSE Append(results_order, futures[i].key)
       ]_vars
    /\ [](/\ {completion[n].task : n \in 1..Len(completion)} =
                {i \in Tasks : futures[i].state = "FINISHED"}
          /\ {results_order[n] : n \in 1..Len(results_order)} = DOMAIN results
          /\ Len(results_order) = Cardinality(DOMAIN results))

\* Three keys were inserted; the first two ended before as_completed was
\* entered and were inserted against the order of completion, the third after.
C17_Witness ==
    /\ returned # <<>>
    /\ \E a, b \in EarlyTasks :
        /\ CompletionPos(a) < CompletionPos(b)
        /\ futures[a].key # futures[b].key
        /\ KeyPos(results_order, futures[b].key) < KeyPos(results_order, futures[a].key)


\* ------------------------------------------------------------------ C18

\* C18: once __init__ has returned, the registry has a handle for each
\* configured provider name and for nothing else, as many handles as there are
\* providers, each made from the provider of its name; no later step changes
\* the registry; every generated task names a provider of the registry, and
\* no probe has ended in the KeyError of the lookup.
C18_RegistryFixed ==
    /\ []((pc \in {"constructed", "submit", "collect", "returned"}
           \/ (pc = "exit" /\ exit_code = 0)) =>
            /\ DOMAIN clients = {config.providers[a].name : a \in 1..Len(config.providers)}
            /\ Cardinality(DOMAIN clients) = Len(config.providers)
            /\ \A a \in 1..Len(config.providers) :
                  /\ clients[config.providers[a].name].for_provider = config.providers[a].name
                  /\ clients[config.providers[a].name].api_key = config.providers[a].api_key
            /\ \A i \in 1..Len(test_tasks) : test_tasks[i].provider \in DOMAIN clients
            /\ \A i \in Tasks : futures[i].result.exc # "KeyError")
    /\ [][pc # "start" => clients' = clients]_vars

C18_Witness ==
    /\ pc = "returned"
    /\ Cardinality(DOMAIN clients) = 2
    /\ \E i, j \in Tasks :
        /\ test_tasks[i].provider # test_tasks[j].provider
        /\ futures[i].result.kind = "ok"
        /\ futures[j].result.kind = "ok"

====
